---- MODULE Spec2Model ----
(***************************************************************************)
(* Model of playwright-fire-reports: the tree flattener                    *)
(* (parsePlaywrightReport, validatePlaywrightReport), the aggregator       *)
(* (calculateStatistics), the payload builder (generateVueReport,          *)
(* percentile) and the command line entry point (main).                    *)
(*                                                                         *)
(* Numbers: every quantity the code rounds is a quotient of integers, so   *)
(* Math.round(a / b) is modelled exactly as floor((2a + b) / 2b).          *)
(* Strings produced by formatDuration are kept as the millisecond value    *)
(* they are formatted from.                                                *)
(***************************************************************************)
EXTENDS Integers, Sequences, FiniteSets, TLC

VARIABLES
  pc,        \* position of the caller / of main()
  doc,       \* the parsed JSON document of the input file
  nodes,     \* number of suite, spec and test nodes of doc
  valid,     \* result of validatePlaywrightReport(doc), once called
  data,      \* the ReportData handed to the consumers (or NoData)
  history,   \* options.history handed to generateVueReport
  out,       \* result of generateVueReport: a payload, Threw or NoOut
  stats,     \* result of calculateStatistics (or NoStats)
  series,    \* the duration series handed to percentile
  pcts,      \* <<percentile(series, 50), percentile(series, 90), percentile(series, 95)>>
  inputFile,   \* the file at argv.input: "missing", "badjson" or "json" (then doc)
  historyFile, \* the file at argv['history-file']
  argv,        \* the command line options main() reads
  exitCode,    \* exit code of the process
  calls,       \* what the current run of main() has called and touched so far
  runs,        \* number of CLI runs started
  clock        \* the wall clock, as new Date() reads it

vars == <<pc, doc, nodes, valid, data, history, out, stats, series, pcts,
          inputFile, historyFile, argv, exitCode, calls, runs, clock>>

----------------------------------------------------------------------------
(* Bounds of the model *)
MaxTests == 3
MaxSeries == 10
MaxNodes == 4
MaxRuns == 2
MaxRunSize == 13
MaxFiles == 11
MaxMix == 6
MaxScored == 10

----------------------------------------------------------------------------
(* JavaScript values *)

Undef == "undefined"
\* the outcome of a call that ends in an uncaught TypeError
Threw == [kind |-> "threw"]
NoOut == [kind |-> "none"]
Statuses == {"passed", "failed", "skipped", "timedOut"}

\* x is truthy (a non-empty, defined string)
Truthy(s) == s # Undef /\ s # ""
\* s || dflt
OrElse(s, dflt) == IF Truthy(s) THEN s ELSE dflt

Max(a, b) == IF a >= b THEN a ELSE b
Min(a, b) == IF a <= b THEN a ELSE b

\* Math.round(num / den), den > 0: halves go up
RoundDiv(num, den) == (2 * num + den) \div (2 * den)
\* Math.ceil(num / den), den > 0
CeilDiv(num, den) == -((-num) \div den)

RECURSIVE SumSeq(_)
SumSeq(s) == IF Len(s) = 0 THEN 0 ELSE Head(s) + SumSeq(Tail(s))

\* the elements of a set of naturals, ascending
SeqOfSet(S) ==
  [p \in 1..Cardinality(S) |->
     CHOOSE i \in S : Cardinality({j \in S : j < i}) = p - 1]

\* Array.prototype.sort with comparator (a, b) => key(a) - key(b): the stable
\* ascending order of the indices of keys
RECURSIVE InsertIdx(_, _, _)
InsertIdx(i, order, keys) ==
  IF Len(order) = 0 THEN <<i>>
  ELSE IF keys[Head(order)] <= keys[i]
       THEN <<Head(order)>> \o InsertIdx(i, Tail(order), keys)
       ELSE <<i>> \o order

RECURSIVE StableAscUpTo(_, _)
StableAscUpTo(keys, n) ==
  IF n = 0 THEN <<>> ELSE InsertIdx(n, StableAscUpTo(keys, n - 1), keys)

StableAsc(keys) == StableAscUpTo(keys, Len(keys))

\* comparator (a, b) => key(b) - key(a): stable descending order
StableDesc(keys) == StableAsc([i \in DOMAIN keys |-> 0 - keys[i]])

Permute(s, order) == [p \in DOMAIN order |-> s[order[p]]]

\* slice(0, n)
Take(s, n) == SubSeq(s, 1, Min(n, Len(s)))
\* slice(-n)
TakeLast(s, n) == SubSeq(s, Max(1, Len(s) - n + 1), Len(s))

----------------------------------------------------------------------------
(* vueReportGenerator.ts: clamp, percentile *)

clamp_unbounded(n) == n
clamp(n) == Max(0, Min(100, n))

percentile_floorIndex(values, p) ==
  IF Len(values) = 0 THEN 0
  ELSE LET sorted == Permute(values, StableAsc(values))
           idx == (p * Len(sorted)) \div 100
       IN sorted[Max(0, Min(Len(sorted) - 1, idx)) + 1]

percentile(values, p) ==
  IF Len(values) = 0 THEN 0
  ELSE LET sorted == Permute(values, StableAsc(values))
           idx == CeilDiv(p * Len(sorted), 100) - 1
       IN sorted[Max(0, Min(Len(sorted) - 1, idx)) + 1]

\* durations -> p50, p90, p95 as generateVueReport takes them
percentiles(s) == <<percentile(s, 50), percentile(s, 90), percentile(s, 95)>>

----------------------------------------------------------------------------
(* statistics: calculateStatistics *)

FastLimit == 1000
MediumLimit == 5000
SlowLimit == 15000
RankingSize == 10

IsFlaky(t) == t.retries > 0 /\ t.status = "passed"

durationRangeOf_inclusive(d) ==
  IF d <= FastLimit THEN "fast"
  ELSE IF d <= MediumLimit THEN "medium"
  ELSE IF d <= SlowLimit THEN "slow"
  ELSE "verySlow"

durationRangeOf(d) ==
  IF d < FastLimit THEN "fast"
  ELSE IF d < MediumLimit THEN "medium"
  ELSE IF d < SlowLimit THEN "slow"
  ELSE "verySlow"

\* the minimum keeps the start value of a running minimum
emptyStatistics_sentinelMin ==
  [passRate |-> 0, failRate |-> 0, skipRate |-> 0, averageDuration |-> 0,
   maxDuration |-> 0, minDuration |-> 2147483647,
   retriesDistribution |-> [k \in {} |-> 0],
   durationRanges |-> [fast |-> 0, medium |-> 0, slow |-> 0, verySlow |-> 0],
   failedTests |-> <<>>, flakyTests |-> <<>>, slowestTests |-> <<>>]

emptyStatistics ==
  [passRate |-> 0, failRate |-> 0, skipRate |-> 0, averageDuration |-> 0,
   maxDuration |-> 0, minDuration |-> 0,
   retriesDistribution |-> [k \in {} |-> 0],
   durationRanges |-> [fast |-> 0, medium |-> 0, slow |-> 0, verySlow |-> 0],
   failedTests |-> <<>>, flakyTests |-> <<>>, slowestTests |-> <<>>]

\* the records without a retry are left out
retriesMap_retriedOnly(tests) ==
  [k \in {tests[i].retries : i \in DOMAIN tests} \ {0} |->
     Cardinality({i \in DOMAIN tests : tests[i].retries = k})]

\* retriesMap[test.retries] = (retriesMap[test.retries] || 0) + 1
retriesMap(tests) ==
  [k \in {tests[i].retries : i \in DOMAIN tests} |->
     Cardinality({i \in DOMAIN tests : tests[i].retries = k})]

\* the percentage cut off, not rounded
rateOf_truncated(n, total) == IF total > 0 THEN (100 * n) \div total ELSE 0

\* total > 0 ? Math.round((n / total) * 100) : 0
rateOf(n, total) == IF total > 0 THEN RoundDiv(100 * n, total) ELSE 0

calculateStatistics(d) ==
  IF Len(d.tests) = 0 THEN emptyStatistics
  ELSE
    LET tests == d.tests
        durs == [i \in DOMAIN tests |-> tests[i].duration]
        inRange(r) == Cardinality({i \in DOMAIN tests : durationRangeOf(durs[i]) = r})
        rate(n) == rateOf(n, d.totalTests)
    IN [passRate |-> rate(d.passed),
        failRate |-> rate(d.failed),
        skipRate |-> rate(d.skipped),
        averageDuration |->
          IF d.totalTests > 0 THEN RoundDiv(d.totalDuration, d.totalTests) ELSE 0,
        maxDuration |-> CHOOSE m \in {0} \cup {durs[i] : i \in DOMAIN durs} :
                          \A i \in DOMAIN durs : durs[i] <= m,
        minDuration |-> CHOOSE m \in {durs[i] : i \in DOMAIN durs} :
                          \A i \in DOMAIN durs : m <= durs[i],
        retriesDistribution |-> retriesMap(tests),
        durationRanges |-> [fast |-> inRange("fast"), medium |-> inRange("medium"),
                            slow |-> inRange("slow"), verySlow |-> inRange("verySlow")],
        failedTests |-> SelectSeq(tests, LAMBDA t : t.status = "failed"),
        flakyTests |-> SelectSeq(tests, IsFlaky),
        slowestTests |-> Take(Permute(tests, StableDesc(durs)), RankingSize)]

----------------------------------------------------------------------------
(* Grouping shared by parsePlaywrightReport and generateVueReport: a Map
   filled in encounter order, one entry per distinct key *)

\* the distinct keys, in order of first occurrence
MapKeys(keys) ==
  LET first == {i \in DOMAIN keys : \A j \in 1..(i - 1) : keys[j] # keys[i]}
      order == SeqOfSet(first)
  IN [p \in DOMAIN order |-> keys[order[p]]]

groupCounters(tests, keys, k) ==
  LET members == {i \in DOMAIN tests : keys[i] = k}
      n(st) == Cardinality({i \in members : tests[i].status = st})
  IN [name |-> k,
      total |-> Cardinality(members),
      passed |-> n("passed"),
      failed |-> n("failed"),
      skipped |-> n("skipped"),
      timedOut |-> n("timedOut"),
      flaky |-> Cardinality({i \in members : IsFlaky(tests[i])}),
      passRate |-> 0,
      duration |-> SumSeq([p \in 1..Cardinality(members) |->
                             tests[SeqOfSet(members)[p]].duration])]

\* [...map.values()].map(passRate).sort((a, b) => b.total - a.total)
groupStats(tests, keys) ==
  LET names == MapKeys(keys)
      raw == [p \in DOMAIN names |-> groupCounters(tests, keys, names[p])]
      rated == [p \in DOMAIN raw |->
                  [raw[p] EXCEPT !.passRate =
                     IF raw[p].total > 0
                     THEN RoundDiv(100 * raw[p].passed, raw[p].total) ELSE 0]]
  IN Permute(rated, StableDesc([p \in DOMAIN rated |-> rated[p].total]))

browserKey(t) == OrElse(t.browser, "unknown")
suiteKey(t) == OrElse(t.suite, OrElse(t.file, "Unknown Suite"))
fileKey(t) == OrElse(t.file, "unknown-file")

----------------------------------------------------------------------------
(* vueReportGenerator.ts: generateVueReport *)

SpeedBudgetMs == 15000
FlakyGateRate == 8
DurationGateSec == 20
HistoryWindow == 20
FileInsightsSize == 10
SuiteStatsSize == 20

\* per-file accumulator of the fileMap loop
fileEntry(tests, keys, k) ==
  LET members == {i \in DOMAIN tests : keys[i] = k}
      order == SeqOfSet(members)
  IN [file |-> k,
      total |-> Cardinality(members),
      failed |-> Cardinality({i \in members :
                    tests[i].status = "failed" \/ tests[i].status = "timedOut"}),
      flaky |-> Cardinality({i \in members : tests[i].retries > 0}),
      duration |-> SumSeq([p \in DOMAIN order |-> Max(0, tests[order[p]].duration)]),
      retries |-> SumSeq([p \in DOMAIN order |-> Max(0, tests[order[p]].retries)])]

fileInsight(entry, p95) ==
  LET avgDuration == IF entry.total > 0 THEN RoundDiv(entry.duration, entry.total) ELSE 0
      failRate == IF entry.total > 0 THEN RoundDiv(100 * entry.failed, entry.total) ELSE 0
      retryFileRate == IF entry.total > 0 THEN RoundDiv(100 * entry.flaky, entry.total) ELSE 0
      durationPressure == RoundDiv(100 * avgDuration, Max(1, p95))
  IN [file |-> entry.file, total |-> entry.total, failed |-> entry.failed,
      flaky |-> entry.flaky, avgDuration |-> avgDuration, failRate |-> failRate,
      riskScore |-> clamp(RoundDiv(55 * failRate + 20 * retryFileRate
                                     + 25 * durationPressure, 100))]

\* the files are left in the order of their first record
rankFiles_unsorted(all) == all

\* sort((a, b) => b.riskScore - a.riskScore)
rankFiles(all) == Permute(all, StableDesc([p \in DOMAIN all |-> all[p].riskScore]))

\* options.history mapped, sorted by generatedAt and cut to the last 20
historyWindow(h) ==
  LET mapped == [i \in DOMAIN h |->
                   [generatedAt |-> h[i].generatedAt, total |-> h[i].total,
                    failed |-> h[i].failed, flaky |-> h[i].flaky,
                    passRate |-> h[i].passRate, durationMs |-> h[i].durationMs,
                    flakyRate |-> IF h[i].total > 0
                                  THEN RoundDiv(100 * h[i].flaky, h[i].total) ELSE 0]]
      order == StableAsc([i \in DOMAIN mapped |-> mapped[i].generatedAt])
  IN TakeLast(Permute(mapped, order), HistoryWindow)

\* the deltas taken the other way round
comparisonOf_previousMinusLatest(hist) ==
  LET n == Len(hist)
      both == n > 1
      latestRun == hist[n]
      previousRun == hist[n - 1]
  IN [hasBaseline |-> both,
      passRateDelta |-> IF both THEN previousRun.passRate - latestRun.passRate ELSE 0,
      failedDelta |-> IF both THEN previousRun.failed - latestRun.failed ELSE 0,
      flakyRateDelta |-> IF both THEN previousRun.flakyRate - latestRun.flakyRate ELSE 0,
      durationDeltaSec |-> IF both
          THEN RoundDiv(previousRun.durationMs - latestRun.durationMs, 1000) ELSE 0]

comparisonOf(hist) ==
  LET n == Len(hist)
      both == n > 1
      latestRun == hist[n]
      previousRun == hist[n - 1]
  IN [hasBaseline |-> both,
      passRateDelta |-> IF both THEN latestRun.passRate - previousRun.passRate ELSE 0,
      failedDelta |-> IF both THEN latestRun.failed - previousRun.failed ELSE 0,
      flakyRateDelta |-> IF both THEN latestRun.flakyRate - previousRun.flakyRate ELSE 0,
      durationDeltaSec |-> IF both
          THEN RoundDiv(latestRun.durationMs - previousRun.durationMs, 1000) ELSE 0]

releaseGateOf_failedOnly(failed, timedOut, flakyRate, comparison) ==
  IF failed > 0 THEN "BLOCKED"
  ELSE IF flakyRate >= FlakyGateRate
          \/ (comparison.hasBaseline /\ comparison.durationDeltaSec > DurationGateSec)
       THEN "RISKY"
       ELSE "READY"

\* the flaky threshold is exclusive
releaseGateOf_flakyAbove(failed, timedOut, flakyRate, comparison) ==
  IF failed > 0 \/ timedOut > 0 THEN "BLOCKED"
  ELSE IF flakyRate > FlakyGateRate
          \/ (comparison.hasBaseline /\ comparison.durationDeltaSec > DurationGateSec)
       THEN "RISKY"
       ELSE "READY"

releaseGateOf(failed, timedOut, flakyRate, comparison) ==
  IF failed > 0 \/ timedOut > 0 THEN "BLOCKED"
  ELSE IF flakyRate >= FlakyGateRate
          \/ (comparison.hasBaseline /\ comparison.durationDeltaSec > DurationGateSec)
       THEN "RISKY"
       ELSE "READY"

riskLevelOf(q) ==
  IF q >= 85 THEN "Low" ELSE IF q >= 70 THEN "Moderate"
  ELSE IF q >= 50 THEN "High" ELSE "Critical"

\* Math.round works on doubles: where the exact value is k + 0.5 the double
\* may lie just below it, and Math.round then gives k, not k + 1.  The
\* values of p95 (whole milliseconds) at which (p95 / 15000) * 100 does so:
SpeedBelowHalf == {2175, 4275, 8475, 8625}

speedScoreOf(p95) ==
  LET pct == RoundDiv(100 * p95, SpeedBudgetMs)
  IN clamp(100 - (IF p95 \in SpeedBelowHalf THEN pct - 1 ELSE pct))

\* 100 - (retryRate*0.55 + failRate*0.75 + timedOut/max(1,total)*100*0.4)
\* the <<retryRate, failRate>> at which, no test having timed out, the double
\* 100 - (retryRate * 0.55 + failRate * 0.75) lies just below an exact k + 0.5
StabilityBelowHalf ==
  {<<85, 1>>, <<85, 5>>, <<85, 9>>, <<85, 13>>, <<85, 17>>, <<85, 21>>,
   <<90, 0>>, <<90, 4>>, <<90, 8>>, <<90, 12>>, <<90, 16>>,
   <<95, 3>>, <<95, 7>>, <<95, 11>>, <<95, 15>>,
   <<100, 2>>, <<100, 6>>, <<100, 10>>}

\* the same with timed-out tests, as <<retryRate, failRate, timedOut, total>>,
\* for the runs of at most 15 records
StabilityBelowHalfTimedOut == {<<90, 0, 1, 10>>, <<90, 0, 2, 10>>, <<90, 0, 3, 10>>}

stabilityScoreOf(retryRate, failRate, timedOut, total) ==
  LET t == Max(1, total)
      exact == RoundDiv(10000 * t - (55 * retryRate * t + 75 * failRate * t
                                       + 4000 * timedOut), 100 * t)
      below == \/ timedOut = 0 /\ <<retryRate, failRate>> \in StabilityBelowHalf
               \/ <<retryRate, failRate, timedOut, total>> \in StabilityBelowHalfTimedOut
  IN clamp(IF below THEN exact - 1 ELSE exact)

\* the <<passRate, stabilityScore, speedScore, retryHealth>>, among those the
\* runs modelled below produce, at which the double sum of the four weighted
\* scores lies just below an exact k + 0.5
QualityBelowHalf ==
  {<<30, 67, 67, 90>>, <<33, 44, 86, 89>>, <<40, 57, 67, 90>>, <<40, 67, 67, 90>>,
   <<50, 57, 67, 70>>, <<50, 62, 67, 75>>, <<50, 67, 67, 100>>, <<60, 57, 67, 50>>,
   <<60, 57, 67, 70>>, <<67, 50, 67, 33>>, <<70, 57, 67, 50>>}

\* the weights of passRate and stabilityScore exchanged
qualityScoreOf_stabilityFirst(passRate, stabilityScore, speedScore, retryHealth) ==
  clamp(RoundDiv(3 * passRate + 4 * stabilityScore + 2 * speedScore + retryHealth, 10))

qualityScoreOf(passRate, stabilityScore, speedScore, retryHealth) ==
  LET exact == RoundDiv(4 * passRate + 3 * stabilityScore + 2 * speedScore
                          + retryHealth, 10)
      below == <<passRate, stabilityScore, speedScore, retryHealth>> \in QualityBelowHalf
  IN clamp(IF below THEN exact - 1 ELSE exact)

generateVueReport(d, h) ==
  LET tests == d.tests
      idx == DOMAIN tests
      nStatus(st) == Cardinality({i \in idx : tests[i].status = st})
      canonicalTotal == Len(tests)
      canonicalPassed == nStatus("passed")
      canonicalFailed == nStatus("failed")
      canonicalSkipped == nStatus("skipped")
      canonicalFlaky == Cardinality({i \in idx : IsFlaky(tests[i])})
      canonicalDuration == SumSeq([i \in idx |-> Max(0, tests[i].duration)])
      safeData == [d EXCEPT !.totalTests = canonicalTotal, !.passed = canonicalPassed,
                            !.failed = canonicalFailed, !.skipped = canonicalSkipped,
                            !.flaky = canonicalFlaky, !.totalDuration = canonicalDuration]
      enhanced == calculateStatistics(safeData)
      durations == [i \in idx |-> tests[i].duration]
      sortedDesc == Permute(durations, StableDesc(durations))
      n == canonicalTotal
      q25 == IF n > 0 THEN sortedDesc[(n \div 4) + 1] ELSE 0
      q50 == IF n > 0 THEN sortedDesc[(n \div 2) + 1] ELSE 0
      q75 == IF n > 0 THEN sortedDesc[((3 * n) \div 4) + 1] ELSE 0
      tiers == <<Cardinality({i \in idx : durations[i] <= q25}),
                 Cardinality({i \in idx : durations[i] > q25 /\ durations[i] <= q50}),
                 Cardinality({i \in idx : durations[i] > q50 /\ durations[i] <= q75}),
                 Cardinality({i \in idx : durations[i] > q75})>>
      p50 == percentile(durations, 50)
      p90 == percentile(durations, 90)
      p95 == percentile(durations, 95)
      timedOut == nStatus("timedOut")
      totalRetries == SumSeq([i \in idx |-> Max(0, tests[i].retries)])
      retriedTests == Cardinality({i \in idx : tests[i].retries > 0})
      retryRate == IF n > 0 THEN RoundDiv(100 * retriedTests, n) ELSE 0
      flakyRate == IF n > 0 THEN RoundDiv(100 * canonicalFlaky, n) ELSE 0
      retryHealth == clamp(100 - retryRate)
      speedScore == speedScoreOf(p95)
      stabilityScore == stabilityScoreOf(retryRate, enhanced.failRate, timedOut, n)
      effectivePassRate ==
        IF n > 0 THEN RoundDiv(100 * Max(0, canonicalPassed - canonicalFlaky), n) ELSE 0
      qualityScore == qualityScoreOf(enhanced.passRate, stabilityScore, speedScore, retryHealth)
      fkeys == [i \in idx |-> fileKey(tests[i])]
      fnames == MapKeys(fkeys)
      fileAll == [p \in DOMAIN fnames |-> fileInsight(fileEntry(tests, fkeys, fnames[p]), p95)]
      fileInsights == rankFiles(fileAll)
      derivedBrowser == groupStats(tests, [i \in idx |-> browserKey(tests[i])])
      browserStatsRaw == IF Len(d.browserStats) > 0 THEN d.browserStats ELSE derivedBrowser
      browserStats == Permute(browserStatsRaw,
                        StableDesc([p \in DOMAIN browserStatsRaw |-> browserStatsRaw[p].total]))
      derivedSuite == groupStats(tests, [i \in idx |-> suiteKey(tests[i])])
      suiteStatsRaw == IF Len(d.suiteStats) > 0 THEN d.suiteStats ELSE derivedSuite
      suiteStats == Permute(suiteStatsRaw,
                      StableDesc([p \in DOMAIN suiteStatsRaw |-> suiteStatsRaw[p].total]))
      hist == historyWindow(h)
      comparison == comparisonOf(hist)
      avgDurationMs == IF n > 0 THEN RoundDiv(canonicalDuration, n) ELSE 0
      nonPassing == canonicalFailed + timedOut
  IN IF \E i \in DOMAIN h : h[i].kind = "null" THEN Threw
     ELSE
     [kind |-> "payload",
      summary |-> [total |-> n, passed |-> canonicalPassed, failed |-> canonicalFailed,
                   skipped |-> canonicalSkipped, flaky |-> canonicalFlaky,
                   durationMs |-> canonicalDuration,
                   passRate |-> enhanced.passRate, flakyRate |-> flakyRate,
                   failRate |-> enhanced.failRate, skipRate |-> enhanced.skipRate,
                   timedOut |-> timedOut, avgDurationMs |-> avgDurationMs,
                   nonPassing |-> nonPassing],
      insights |-> [qualityScore |-> qualityScore, stabilityScore |-> stabilityScore,
                    speedScore |-> speedScore, retryHealth |-> retryHealth,
                    retryRate |-> retryRate, retryBurden |-> totalRetries,
                    p50 |-> p50, p90 |-> p90, p95 |-> p95,
                    effectivePassRate |-> effectivePassRate,
                    riskLevel |-> riskLevelOf(qualityScore),
                    releaseGate |-> releaseGateOf(canonicalFailed, timedOut, flakyRate, comparison)],
      durationSeries |-> enhanced.durationRanges,
      retriesSeries |-> enhanced.retriesDistribution,
      tiers |-> tiers,
      fileInsights |-> Take(fileInsights, FileInsightsSize),
      browserStats |-> browserStats,
      suiteStats |-> Take(suiteStats, SuiteStatsSize),
      history |-> hist,
      comparison |-> comparison,
      hasFailures |-> canonicalFailed > 0]

\* the caller's array as a sort in place would leave it
optionsHistoryAfter_sortedInPlace(h) ==
  IF \E i \in DOMAIN h : h[i].kind = "null" THEN h
  ELSE Permute(h, StableAsc([i \in DOMAIN h |-> h[i].generatedAt]))

\* the caller's array after the call: map() builds a new array of new
\* objects, and sort() and slice() work on that one
optionsHistoryAfter(h) == h

----------------------------------------------------------------------------
(* parser: the aggregation tail of parsePlaywrightReport (counters and
   per-browser / per-suite statistics over the flattened records) *)

NoData == [kind |-> "none"]
NoStats == [kind |-> "none"]

\* failed counts the timed out records too
reportDataOf_failedOrTimedOut(tests, suites, browsers) ==
  LET idx == DOMAIN tests
  IN [kind |-> "data",
      totalTests |-> Len(tests),
      passed |-> Cardinality({i \in idx : tests[i].status = "passed"}),
      failed |-> Cardinality({i \in idx : tests[i].status \in {"failed", "timedOut"}}),
      skipped |-> Cardinality({i \in idx : tests[i].status = "skipped"}),
      flaky |-> Cardinality({i \in idx : IsFlaky(tests[i])}),
      totalDuration |-> SumSeq([i \in idx |-> tests[i].duration]),
      tests |-> tests,
      suites |-> suites,
      browsers |-> browsers,
      browserStats |-> groupStats(tests, [i \in idx |-> browserKey(tests[i])]),
      suiteStats |-> groupStats(tests, [i \in idx |-> suiteKey(tests[i])])]

reportDataOf(tests, suites, browsers) ==
  LET idx == DOMAIN tests
  IN [kind |-> "data",
      totalTests |-> Len(tests),
      passed |-> Cardinality({i \in idx : tests[i].status = "passed"}),
      failed |-> Cardinality({i \in idx : tests[i].status = "failed"}),
      skipped |-> Cardinality({i \in idx : tests[i].status = "skipped"}),
      flaky |-> Cardinality({i \in idx : IsFlaky(tests[i])}),
      totalDuration |-> SumSeq([i \in idx |-> tests[i].duration]),
      tests |-> tests,
      suites |-> suites,
      browsers |-> browsers,
      browserStats |-> groupStats(tests, [i \in idx |-> browserKey(tests[i])]),
      suiteStats |-> groupStats(tests, [i \in idx |-> suiteKey(tests[i])])]

----------------------------------------------------------------------------
(* parser: the JSON document, collectSpecs, validatePlaywrightReport,
   parsePlaywrightReport *)

\* a node that is null where an object is expected
NullNode == [kind |-> "null"]

SuiteNode(title, file) ==
  [kind |-> "obj", title |-> title, file |-> file, specs |-> <<>>, suites |-> <<>>]
\* hasTests: spec.tests is an array
SpecNode(file, hasTests) ==
  [kind |-> "obj", file |-> file, hasTests |-> hasTests, tests |-> <<>>]
TestNode(projectName, results) ==
  [kind |-> "obj", projectName |-> projectName, results |-> results]
Attempt(status, duration) == [kind |-> "obj", status |-> status, duration |-> duration]

\* hasSuites: report.suites is an array
EmptyDoc == [kind |-> "obj", hasSuites |-> TRUE, suites |-> <<>>]
NullDoc == [kind |-> "null"]
NoSuitesDoc == [kind |-> "obj", hasSuites |-> FALSE, suites |-> <<>>]

RECURSIVE collectSpecs(_, _)
RECURSIVE collectChildren(_, _)
\* the outer title wins over the suite's own
collectSpecs_outerTitle(suite, parentSuiteTitle) ==
  IF suite.kind # "obj" THEN <<>>
  ELSE LET currentTitle == OrElse(parentSuiteTitle, suite.title)
           own == SelectSeq(suite.specs, LAMBDA sp : sp.kind = "obj" /\ sp.hasTests)
       IN [i \in DOMAIN own |-> [spec |-> own[i], suiteTitle |-> currentTitle]]
          \o collectChildren(suite.suites, currentTitle)

\* the CollectedSpec entries pushed for one suite, in push order
collectSpecs(suite, parentSuiteTitle) ==
  IF suite.kind # "obj" THEN <<>>
  ELSE LET currentTitle == OrElse(suite.title, parentSuiteTitle)
           own == SelectSeq(suite.specs, LAMBDA sp : sp.kind = "obj" /\ sp.hasTests)
       IN [i \in DOMAIN own |-> [spec |-> own[i], suiteTitle |-> currentTitle]]
          \o collectChildren(suite.suites, currentTitle)
collectChildren(children, currentTitle) ==
  IF Len(children) = 0 THEN <<>>
  ELSE collectSpecs(Head(children), currentTitle)
       \o collectChildren(Tail(children), currentTitle)

RECURSIVE validateSuites(_)
validateSuites(suites) ==
  \A i \in DOMAIN suites :
    LET suite == suites[i]
    IN /\ suite.kind = "obj"
       /\ LET hasSpecs == \E j \in DOMAIN suite.specs :
                            suite.specs[j].kind = "obj" /\ suite.specs[j].hasTests
              hasNested == Len(suite.suites) > 0
          IN \/ ~hasSpecs /\ ~hasNested
             \/ hasNested => \A c \in DOMAIN suite.suites :
                               validateSuites(<<suite.suites[c]>>)

validatePlaywrightReport(report) ==
  /\ report.kind = "obj"
  /\ report.hasSuites
  /\ validateSuites(report.suites)

\* the test nodes of a collected spec that make the walk throw a TypeError:
\* test.results read on a null test, lastResult.stdout read on a null attempt
testThrows(test) ==
  \/ test.kind = "null"
  \/ Len(test.results) > 0 /\ test.results[Len(test.results)].kind = "null"

\* status and duration of the first attempt
testRecord_firstAttempt(test, item, suite) ==
  LET results == test.results
      lastResult == results[1]
  IN [status |-> lastResult.status,
      duration |-> lastResult.duration,
      retries |-> Len(results) - 1,
      browser |-> test.projectName,
      suite |-> OrElse(item.suiteTitle,
                  OrElse(item.spec.file, OrElse(suite.title, "Unknown Suite"))),
      file |-> OrElse(item.spec.file, Undef)]

testRecord(test, item, suite) ==
  LET results == test.results
      lastResult == results[Len(results)]
  IN [status |-> lastResult.status,
      duration |-> lastResult.duration,
      retries |-> Len(results) - 1,
      browser |-> test.projectName,
      suite |-> OrElse(item.suiteTitle,
                  OrElse(item.spec.file, OrElse(suite.title, "Unknown Suite"))),
      file |-> OrElse(item.spec.file, Undef)]

RECURSIVE specRecords(_, _, _)
\* the records pushed for the tests of one collected spec
specRecords(tests, item, suite) ==
  IF Len(tests) = 0 THEN <<>>
  ELSE (IF Len(Head(tests).results) = 0 THEN <<>>
        ELSE <<testRecord(Head(tests), item, suite)>>)
       \o specRecords(Tail(tests), item, suite)

RECURSIVE itemsRecords(_, _)
itemsRecords(items, suite) ==
  IF Len(items) = 0 THEN <<>>
  ELSE specRecords(Head(items).spec.tests, Head(items), suite)
       \o itemsRecords(Tail(items), suite)

\* processSuite: the records one root suite contributes
processSuite(suite) ==
  IF suite.kind # "obj" THEN <<>>
  ELSE itemsRecords(collectSpecs(suite, Undef), suite)

RECURSIVE processSuites(_)
processSuites(suites) ==
  IF Len(suites) = 0 THEN <<>>
  ELSE processSuite(Head(suites)) \o processSuites(Tail(suites))

\* the names added to the suites set
suiteNames(report) ==
  LET roots == {report.suites[i] : i \in DOMAIN report.suites}
      objs == {r \in roots : r.kind = "obj"}
      items(r) == collectSpecs(r, Undef)
  IN {r.title : r \in {o \in objs : Truthy(o.title)}}
     \cup {r.file : r \in {o \in objs : Truthy(o.file)}}
     \cup UNION {{items(r)[i].spec.file : i \in {j \in DOMAIN items(r) :
                                           Truthy(items(r)[j].spec.file)}} : r \in objs}

parseThrows(report) ==
  \/ report.kind = "null"
  \/ \E i \in DOMAIN report.suites :
       LET items == collectSpecs(report.suites[i], Undef)
       IN \E j \in DOMAIN items :
            \E k \in DOMAIN items[j].spec.tests : testThrows(items[j].spec.tests[k])

parsePlaywrightReport(report) ==
  IF parseThrows(report) THEN Threw
  ELSE LET tests == processSuites(report.suites)
       IN reportDataOf(tests, suiteNames(report),
                       {tests[i].browser : i \in {j \in DOMAIN tests : Truthy(tests[j].browser)}})

----------------------------------------------------------------------------
(* The input document. A document is written node by node in document
   order: a suite is appended under any suite that is still open (the last
   suite of each level), a spec to the innermost open suite, a test to its
   last spec. Every document of at most MaxNodes nodes is written this way,
   each exactly once. *)

SuiteTitles == <<"Outer", "Inner", "Deep", "Deeper", "Deepest", "Abyss">>
TitleAt(d) == SuiteTitles[Min(d + 1, Len(SuiteTitles))]

SuitePool(d) ==
  {NullNode, SuiteNode(Undef, Undef), SuiteNode(TitleAt(d), Undef)}
  \cup (IF d = 0 THEN {SuiteNode(Undef, "root.spec.ts")} ELSE {})

SpecPool ==
  {NullNode, SpecNode(Undef, FALSE), SpecNode(Undef, TRUE), SpecNode("a.spec.ts", TRUE)}

TestNodePool ==
  {NullNode,
   TestNode(Undef, <<>>),
   TestNode("chromium", <<Attempt("passed", 100)>>),
   TestNode(Undef, <<Attempt("failed", 300), Attempt("passed", 200)>>),
   TestNode("firefox", <<Attempt("passed", 100), Attempt("failed", 400)>>),
   TestNode(Undef, <<Attempt("timedOut", 900)>>),
   TestNode(Undef, <<Attempt("skipped", 0)>>),
   TestNode("chromium", <<Attempt("passed", 100), NullNode>>)}

RECURSIVE spineDepth(_)
\* number of open suites: the last suite of each level, as long as it is an object
spineDepth(suites) ==
  IF Len(suites) = 0 \/ suites[Len(suites)].kind # "obj" THEN 0
  ELSE 1 + spineDepth(suites[Len(suites)].suites)

RECURSIVE innermost(_)
\* the innermost open suite (spineDepth(suites) >= 1)
innermost(suites) ==
  LET last == suites[Len(suites)]
  IN IF spineDepth(last.suites) = 0 THEN last ELSE innermost(last.suites)

RECURSIVE appendAt(_, _, _, _)
\* suites with node appended: what = "suite" under the open suite of depth d
\* (d = 0: the root list), "spec" / "test" in the open suite of depth d
appendAt(suites, d, what, node) ==
  IF d = 0 THEN Append(suites, node)
  ELSE LET n == Len(suites)
           last == suites[n]
       IN IF d = 1 /\ what = "spec"
          THEN [suites EXCEPT ![n] = [last EXCEPT !.specs = Append(last.specs, node)]]
          ELSE IF d = 1 /\ what = "test"
          THEN [suites EXCEPT ![n] = [last EXCEPT !.specs =
                  [last.specs EXCEPT ![Len(last.specs)] =
                     [@ EXCEPT !.tests = Append(@, node)]]]]
          ELSE [suites EXCEPT ![n] =
                  [last EXCEPT !.suites = appendAt(last.suites, d - 1, what, node)]]

docVars == <<doc, nodes, valid>>
cliVars == <<inputFile, historyFile, argv, exitCode, calls, runs, clock>>

\* the history file on disk
AbsentFile == [kind |-> "absent"]
\* a file whose text is not JSON
CorruptFile == [kind |-> "corrupt"]
\* a file whose JSON is not an array
NotArrayFile == [kind |-> "notArray"]
ArrayFile(entries) == [kind |-> "array", entries |-> entries]

\* argv['history-limit']: a number, NaN when the option does not parse as one
LimitArg(n) == [nan |-> FALSE, n |-> n]
NaNArg == [nan |-> TRUE, n |-> 0]

\* no CLI process: the library is called from a program of its own
NoCli ==
  /\ inputFile = "missing"
  /\ historyFile = AbsentFile
  /\ argv = [historyLimit |-> NaNArg]
  /\ exitCode = 0
  /\ calls = <<>>
  /\ runs = 0
  /\ clock = 0

CanEdit == pc = "edit" /\ nodes < MaxNodes /\ doc.kind = "obj" /\ doc.hasSuites

AddSuite ==
  /\ CanEdit
  /\ \E d \in 0..spineDepth(doc.suites) :
       \E node \in SuitePool(d) :
         doc' = [doc EXCEPT !.suites = appendAt(doc.suites, d, "suite", node)]
  /\ nodes' = nodes + 1
  /\ UNCHANGED <<pc, valid, data, history, out, stats, series, pcts, cliVars>>

AddSpec ==
  /\ CanEdit
  /\ spineDepth(doc.suites) >= 1
  /\ Len(innermost(doc.suites).suites) = 0
  /\ \E node \in SpecPool :
       doc' = [doc EXCEPT !.suites =
                 appendAt(doc.suites, spineDepth(doc.suites), "spec", node)]
  /\ nodes' = nodes + 1
  /\ UNCHANGED <<pc, valid, data, history, out, stats, series, pcts, cliVars>>

AddTestNode ==
  /\ CanEdit
  /\ spineDepth(doc.suites) >= 1
  /\ LET s == innermost(doc.suites)
     IN /\ Len(s.suites) = 0
        /\ Len(s.specs) > 0
        /\ s.specs[Len(s.specs)].kind = "obj"
        /\ s.specs[Len(s.specs)].hasTests
  /\ \E node \in TestNodePool :
       doc' = [doc EXCEPT !.suites =
                 appendAt(doc.suites, spineDepth(doc.suites), "test", node)]
  /\ nodes' = nodes + 1
  /\ UNCHANGED <<pc, valid, data, history, out, stats, series, pcts, cliVars>>

(* A library caller: validatePlaywrightReport, then parsePlaywrightReport,
   then generateVueReport on the parsed data *)

CallValidate ==
  /\ pc = "edit"
  /\ valid' = validatePlaywrightReport(doc)
  /\ pc' = "validated"
  /\ UNCHANGED <<doc, nodes, data, history, out, stats, series, pcts, cliVars>>

CallParse ==
  /\ pc = "validated"
  /\ data' = parsePlaywrightReport(doc)
  /\ pc' = "parsed"
  /\ UNCHANGED <<docVars, history, out, stats, series, pcts, cliVars>>

CallReport ==
  /\ pc = "parsed"
  /\ data.kind = "data"
  /\ out' = generateVueReport(data, history)
  /\ history' = optionsHistoryAfter(history)
  /\ pc' = "reported"
  /\ UNCHANGED <<docVars, data, stats, series, pcts, cliVars>>

\* createReport(jsonPath, outputPath, options): the file is read and parsed
\* as JSON, flattened and reported; a throw is rethrown as an Error
CallCreateReport ==
  /\ pc = "edit"
  /\ LET parsed == parsePlaywrightReport(doc)
     IN /\ data' = parsed
        /\ IF parsed.kind = "data"
           THEN /\ out' = generateVueReport(parsed, history)
                /\ calls' = calls \o <<"parsePlaywrightReport", "generateVueReport">>
           ELSE /\ out' = Threw
                /\ calls' = Append(calls, "parsePlaywrightReport")
  /\ history' = optionsHistoryAfter(history)
  /\ pc' = "created"
  /\ UNCHANGED <<docVars, stats, series, pcts,
                 inputFile, historyFile, argv, exitCode, runs, clock>>

InitParse ==
  /\ pc = "edit"
  /\ doc \in {EmptyDoc, NullDoc, NoSuitesDoc}
  /\ nodes = 0
  /\ valid = FALSE
  /\ data = NoData
  /\ history = <<>>
  /\ out = NoOut
  /\ stats = NoStats
  /\ series = <<>>
  /\ pcts = percentiles(<<>>)
  /\ NoCli

NextParse ==
  \/ AddSuite \/ AddSpec \/ AddTestNode
  \/ CallValidate \/ CallParse \/ CallReport
  \/ CallCreateReport
SpecParse == InitParse /\ [][NextParse]_vars

----------------------------------------------------------------------------
(* Callers of the library: a caller assembles a ReportData and a history
   window and calls generateVueReport, calculateStatistics or percentile *)

TestRecord(st, r, d, f, b, s) ==
  [status |-> st, retries |-> r, duration |-> d, file |-> f, browser |-> b, suite |-> s]

\* records a caller hands to generateVueReport
VuePool ==
  {TestRecord(st, r, 1200, "a.spec.ts", "chromium", "Login") : st \in Statuses, r \in {0, 1}}
  \cup {TestRecord("passed", 0, 40000, "b.spec.ts", "firefox", "Cart"),
        TestRecord("failed", 2, 0, Undef, Undef, Undef)}

\* records a caller hands to calculateStatistics: every side of every threshold
DurationPool ==
  {TestRecord("passed", 0, d, "a.spec.ts", "chromium", "Login") :
     d \in {0, 999, 1000, 4999, 5000, 14999, 15000, 60000}}

RunSummary(at, total, failed, flaky, passRate, durationMs) ==
  [kind |-> "obj", generatedAt |-> at, total |-> total, failed |-> failed,
   flaky |-> flaky, passRate |-> passRate, durationMs |-> durationMs]
NullEntry == [kind |-> "null"]

H1 == RunSummary(1, 10, 2, 0, 80, 10000)
H2 == RunSummary(2, 10, 0, 1, 90, 8000)
H3 == RunSummary(3, 10, 0, 0, 100, 40000)
\* 20 s slower than H2, to the millisecond
H4 == RunSummary(4, 10, 0, 0, 100, 28000)
\* 2.5 s faster than H1
H5 == RunSummary(5, 10, 1, 2, 70, 7500)
\* 20.4 s slower than H2
H6 == RunSummary(6, 10, 0, 0, 100, 28400)

\* history windows a caller passes as options.history
HistoryWindows ==
  {<<>>, <<H1>>, <<H1, H2>>, <<H2, H3>>, <<H3, H1>>, <<NullEntry>>, <<H1, NullEntry>>,
   <<H2, H4>>, <<H1, H5>>, <<H1, H2, H3>>, <<H2, H6>>}

SeriesValues == {100, 200, 300}

\* the ReportData of a caller that holds these records (no precomputed rollups)
callerData(tests) ==
  [reportDataOf(tests, {}, {}) EXCEPT !.browserStats = <<>>, !.suiteStats = <<>>]

libVars == <<data, history, out, stats>>
pctVars == <<series, pcts>>

InitLib ==
  /\ doc = EmptyDoc
  /\ nodes = 0
  /\ valid = FALSE
  /\ data = callerData(<<>>)
  /\ history = <<>>
  /\ out = NoOut
  /\ stats = NoStats
  /\ series = <<>>
  /\ pcts = percentiles(<<>>)
  /\ NoCli

\* the caller appends one record to data.tests
AddTest(pool) ==
  /\ pc = "input"
  /\ Len(data.tests) < MaxTests
  /\ \E t \in pool : data' = callerData(Append(data.tests, t))
  /\ UNCHANGED <<pc, docVars, history, out, stats, series, pcts, cliVars>>

\* the caller assembles the array it will pass as options.history
SetHistory ==
  /\ pc = "input"
  /\ history = <<>>
  /\ history' \in HistoryWindows \ {<<>>}
  /\ UNCHANGED <<pc, docVars, data, out, stats, series, pcts, cliVars>>

CallGenerateVueReport ==
  /\ pc = "input"
  /\ out' = generateVueReport(data, history)
  /\ history' = optionsHistoryAfter(history)
  /\ pc' = "done"
  /\ UNCHANGED <<docVars, data, stats, series, pcts, cliVars>>

CallCalculateStatistics ==
  /\ pc = "input"
  /\ stats' = calculateStatistics(data)
  /\ pc' = "done"
  /\ UNCHANGED <<docVars, data, history, out, series, pcts, cliVars>>

\* the caller extends the series and takes its three percentiles
CallPercentile ==
  /\ pc = "input"
  /\ Len(series) < MaxSeries
  /\ \E v \in SeriesValues :
       /\ series' = Append(series, v)
       /\ pcts' = percentiles(Append(series, v))
  /\ UNCHANGED <<pc, docVars, data, history, out, stats, cliVars>>

\* rollups computed for another record list: one passed webkit record
OtherRunRollups ==
  groupStats(<<TestRecord("passed", 0, 100, "a.spec.ts", "webkit", "Login")>>, <<"webkit">>)

\* the caller passes a ReportData that carries browserStats of its own
CallGenerateVueReportWithRollups ==
  /\ pc = "input"
  /\ data' = [data EXCEPT !.browserStats = OtherRunRollups]
  /\ out' = generateVueReport(data', history)
  /\ history' = optionsHistoryAfter(history)
  /\ pc' = "done"
  /\ UNCHANGED <<docVars, stats, series, pcts, cliVars>>

InitVue == pc = "input" /\ InitLib
NextVue ==
  \/ AddTest(VuePool)
  \/ SetHistory
  \/ CallGenerateVueReport
  \/ CallGenerateVueReportWithRollups
SpecVue == InitVue /\ [][NextVue]_vars

NextStats == AddTest(DurationPool) \/ CallCalculateStatistics
SpecStats == InitVue /\ [][NextStats]_vars

NextPct == CallPercentile
SpecPct == InitVue /\ [][NextPct]_vars

\* a caller with a larger run of passed records, the retried ones listed first
AddRetried ==
  /\ pc = "input"
  /\ Len(data.tests) < MaxRunSize
  /\ \A i \in DOMAIN data.tests : data.tests[i].retries > 0
  /\ data' = callerData(Append(data.tests,
                TestRecord("passed", 1, 1200, "a.spec.ts", "chromium", "Login")))
  /\ UNCHANGED <<pc, docVars, history, out, stats, series, pcts, cliVars>>

AddClean ==
  /\ pc = "input"
  /\ Len(data.tests) < MaxRunSize
  /\ data' = callerData(Append(data.tests,
                TestRecord("passed", 0, 1200, "a.spec.ts", "chromium", "Login")))
  /\ UNCHANGED <<pc, docVars, history, out, stats, series, pcts, cliVars>>

FileNames ==
  <<"f01.spec.ts", "f02.spec.ts", "f03.spec.ts", "f04.spec.ts", "f05.spec.ts",
    "f06.spec.ts", "f07.spec.ts", "f08.spec.ts", "f09.spec.ts", "f10.spec.ts",
    "f11.spec.ts", "f12.spec.ts">>

\* a caller whose records each come from a file of their own (the first one
\* possibly from no file): a failed, retried record or a quicker passed one
AddFileRecord ==
  /\ pc = "input"
  /\ Len(data.tests) < MaxFiles
  /\ LET k == Len(data.tests) + 1
         name == FileNames[Min(k, Len(FileNames))]
     IN \E f \in (IF k = 1 THEN {Undef, name} ELSE {name}) :
          \E t \in {TestRecord("failed", 1, 1200, f, "chromium", "Login"),
                    TestRecord("passed", 0, 600, f, "chromium", "Login")} :
            data' = callerData(Append(data.tests, t))
  /\ UNCHANGED <<pc, docVars, history, out, stats, series, pcts, cliVars>>

NextFiles == AddFileRecord \/ CallGenerateVueReport
SpecFiles == InitVue /\ [][NextFiles]_vars

\* records of every status but timedOut, with 0, 1 or 2 retries
MixPool ==
  {TestRecord("passed", 0, 100, "a.spec.ts", "chromium", "Login"),
   TestRecord("passed", 1, 300, "a.spec.ts", "chromium", "Login"),
   TestRecord("passed", 2, 600, "b.spec.ts", "firefox", "Cart"),
   TestRecord("failed", 0, 200, "b.spec.ts", "firefox", "Cart"),
   TestRecord("skipped", 0, 0, "a.spec.ts", "chromium", "Login")}

\* a caller with a run of up to MaxMix records in any order
AddMixed ==
  /\ pc = "input"
  /\ Len(data.tests) < MaxMix
  /\ \E t \in MixPool : data' = callerData(Append(data.tests, t))
  /\ UNCHANGED <<pc, docVars, history, out, stats, series, pcts, cliVars>>

NextMix == AddMixed \/ CallCalculateStatistics \/ CallGenerateVueReport
SpecMix == InitVue /\ [][NextMix]_vars

NextGate == AddRetried \/ AddClean \/ SetHistory \/ CallGenerateVueReport
SpecGate == InitVue /\ [][NextGate]_vars

----------------------------------------------------------------------------
(* main(): one run of the command line program per process; the history
   file and the report stay on disk from one run to the next *)

DefaultHistoryLimit == 30

\* Math.max(1, Number(argv['history-limit']) || 30)
historyLimitOf(arg) ==
  Max(1, IF arg.nan \/ arg.n = 0 THEN DefaultHistoryLimit ELSE arg.n)

\* the entry main() pushes for the current run
historyEntry(d, at) ==
  [kind |-> "obj",
   generatedAt |-> at,
   total |-> d.totalTests,
   passed |-> d.passed,
   failed |-> d.failed,
   skipped |-> d.skipped,
   flaky |-> d.flaky,
   timedOut |-> Cardinality({i \in DOMAIN d.tests : d.tests[i].status = "timedOut"}),
   durationMs |-> d.totalDuration,
   passRate |-> IF d.totalTests > 0 THEN RoundDiv(100 * d.passed, d.totalTests) ELSE 0]

\* the prior history main() takes from the history file
readHistory(file) ==
  IF file.kind = "array"
  THEN SelectSeq(file.entries, LAMBDA e : e.kind = "obj")
  ELSE <<>>

\* the first historyLimit entries kept, the newest dropped
pushAndCap_oldestKept(prior, entry, limit) == Take(Append(prior, entry), limit)

\* the history main() keeps after the push: the last historyLimit entries
pushAndCap(prior, entry, limit) == TakeLast(Append(prior, entry), limit)

suiteOf(title, specs, suites) ==
  [SuiteNode(title, Undef) EXCEPT !.specs = specs, !.suites = suites]
specOf(file, tests) == [SpecNode(file, TRUE) EXCEPT !.tests = tests]
docOf(suites) == [EmptyDoc EXCEPT !.suites = suites]
oneSpecDoc(tests) == docOf(<<suiteOf("Outer", <<specOf("a.spec.ts", tests)>>, <<>>)>>)

\* documents found in the input file
CliDocs ==
  {NullDoc, NoSuitesDoc, EmptyDoc,
   docOf(<<NullNode>>),
   docOf(<<suiteOf("Outer", <<>>, <<NullNode>>)>>),
   oneSpecDoc(<<TestNode("chromium", <<Attempt("passed", 100)>>)>>),
   oneSpecDoc(<<TestNode("chromium", <<Attempt("failed", 300), Attempt("passed", 200)>>),
                TestNode("firefox", <<Attempt("failed", 400)>>)>>),
   oneSpecDoc(<<TestNode("chromium", <<Attempt("timedOut", 30000)>>)>>),
   oneSpecDoc(<<NullNode>>),
   oneSpecDoc(<<TestNode("chromium", <<>>)>>)}

\* an entry stamped by a clock that runs ahead
HAhead == RunSummary(9, 10, 1, 0, 90, 9000)

\* a history file that already holds as many runs as the default limit keeps
FullFile ==
  ArrayFile([i \in 1..DefaultHistoryLimit |->
               RunSummary(i - DefaultHistoryLimit, 10, 0, 0, 100, 8000)])

\* history files found on disk before the first run
HistoryFiles ==
  {AbsentFile, CorruptFile, NotArrayFile, ArrayFile(<<>>), ArrayFile(<<H1>>),
   ArrayFile(<<H1, NullEntry, H2>>), ArrayFile(<<H2, HAhead>>), FullFile}

LimitArgs == {NaNArg, LimitArg(0), LimitArg(-5), LimitArg(2), LimitArg(DefaultHistoryLimit)}

Called(what) == calls' = Append(calls, what)
\* process.exit(code)
Exit(code) == pc' = "exited" /\ exitCode' = code

\* the input file is looked up, read and JSON-parsed
MainReadInput ==
  /\ pc = "start"
  /\ IF inputFile = "json"
     THEN pc' = "validate" /\ Called("readInput") /\ UNCHANGED exitCode
     ELSE Exit(1) /\ UNCHANGED calls
  /\ UNCHANGED <<doc, nodes, valid, data, history, out, stats, series, pcts,
                 inputFile, historyFile, argv, runs, clock>>

\* the shape check is skipped over: the run goes on whatever it says
MainValidate_keepGoing ==
  /\ pc = "validate"
  /\ valid' = validatePlaywrightReport(doc)
  /\ Called("validatePlaywrightReport")
  /\ pc' = "parse"
  /\ UNCHANGED <<doc, nodes, data, history, out, stats, series, pcts,
                 inputFile, historyFile, argv, exitCode, runs, clock>>

MainValidate ==
  /\ pc = "validate"
  /\ valid' = validatePlaywrightReport(doc)
  /\ Called("validatePlaywrightReport")
  /\ IF valid' THEN pc' = "parse" /\ UNCHANGED exitCode ELSE Exit(1)
  /\ UNCHANGED <<doc, nodes, data, history, out, stats, series, pcts,
                 inputFile, historyFile, argv, runs, clock>>

\* a throw of the flattener lands in the catch of main()
MainParse ==
  /\ pc = "parse"
  /\ data' = parsePlaywrightReport(doc)
  /\ Called("parsePlaywrightReport")
  /\ IF data'.kind = "data" THEN pc' = "history" /\ UNCHANGED exitCode ELSE Exit(1)
  /\ UNCHANGED <<doc, nodes, valid, history, out, stats, series, pcts,
                 inputFile, historyFile, argv, runs, clock>>

\* a history file that does not hold an array ends the run
MainReadHistory_exitOnUnreadable ==
  /\ pc = "history"
  /\ IF historyFile.kind \in {"corrupt", "notArray"}
     THEN Called("readHistoryFile") /\ Exit(1) /\ UNCHANGED history
     ELSE /\ IF historyFile.kind # "absent"
             THEN Called("readHistoryFile") /\ history' = readHistory(historyFile)
             ELSE UNCHANGED <<calls, history>>
          /\ pc' = "append"
          /\ UNCHANGED exitCode
  /\ UNCHANGED <<doc, nodes, valid, data, out, stats, series, pcts,
                 inputFile, historyFile, argv, runs, clock>>

MainReadHistory ==
  /\ pc = "history"
  /\ IF historyFile.kind # "absent"
     THEN Called("readHistoryFile") /\ history' = readHistory(historyFile)
     ELSE UNCHANGED <<calls, history>>
  /\ pc' = "append"
  /\ UNCHANGED <<doc, nodes, valid, data, out, stats, series, pcts,
                 inputFile, historyFile, argv, exitCode, runs, clock>>

\* push of the current run, slice(-historyLimit), write of the history file
MainAppendHistory ==
  /\ pc = "append"
  /\ history' = pushAndCap(history, historyEntry(data, clock),
                           historyLimitOf(argv.historyLimit))
  /\ historyFile' = ArrayFile(history')
  /\ Called("writeHistoryFile")
  /\ pc' = "generate"
  /\ UNCHANGED <<doc, nodes, valid, data, out, stats, series, pcts,
                 inputFile, argv, exitCode, runs, clock>>

\* out is the payload of the report on disk: a throw leaves it as it was
MainGenerate ==
  /\ pc = "generate"
  /\ Called("generateVueReport")
  /\ LET result == generateVueReport(data, history)
     IN IF result.kind = "payload"
        THEN out' = result /\ Exit(0)
        ELSE UNCHANGED out /\ Exit(1)
  /\ history' = optionsHistoryAfter(history)
  /\ UNCHANGED <<doc, nodes, valid, data, stats, series, pcts,
                 inputFile, historyFile, argv, runs, clock>>

\* the program is started again, later, with the same files on disk
NextRun ==
  /\ pc = "exited"
  /\ runs < MaxRuns
  /\ runs' = runs + 1
  /\ clock' = clock + 1
  /\ inputFile' \in {"missing", "badjson", "json"}
  /\ doc' \in (IF inputFile' = "json" THEN CliDocs ELSE {NullDoc})
  /\ argv' \in [historyLimit : LimitArgs]
  /\ pc' = "start"
  /\ exitCode' = 0
  /\ calls' = <<>>
  /\ valid' = FALSE
  /\ data' = NoData
  /\ history' = <<>>
  /\ UNCHANGED <<nodes, out, stats, series, pcts, historyFile>>

Init ==
  /\ pc = "start"
  /\ inputFile \in {"missing", "badjson", "json"}
  /\ doc \in (IF inputFile = "json" THEN CliDocs ELSE {NullDoc})
  /\ historyFile \in HistoryFiles
  /\ argv \in [historyLimit : LimitArgs]
  /\ nodes = 0
  /\ valid = FALSE
  /\ data = NoData
  /\ history = <<>>
  /\ out = NoOut
  /\ stats = NoStats
  /\ series = <<>>
  /\ pcts = percentiles(<<>>)
  /\ exitCode = 0
  /\ calls = <<>>
  /\ runs = 1
  /\ clock = 4

Next ==
  \/ MainReadInput
  \/ MainValidate
  \/ MainParse
  \/ MainReadHistory
  \/ MainAppendHistory
  \/ MainGenerate
  \/ NextRun
Spec == Init /\ [][Next]_vars

----------------------------------------------------------------------------
(* Properties of generateVueReport, checked under SpecVue *)

HasPayload == pc = "done" /\ out.kind = "payload"
CountTests(P(_)) == Cardinality({i \in DOMAIN data.tests : P(data.tests[i])})

\* C1: whenever a record handed to generateVueReport has status failed or
\* timedOut, insights.releaseGate is BLOCKED, whatever the scores, the flaky
\* rate and the history window are.
C1_BlockedOnFailure ==
  (HasPayload /\ \E i \in DOMAIN data.tests :
                    data.tests[i].status \in {"failed", "timedOut"})
    => out.insights.releaseGate = "BLOCKED"

\* a run without failed records, blocked by a timedOut one while the quality
\* score is not critical and a baseline exists
C1_Witness ==
  /\ HasPayload
  /\ out.summary.failed = 0 /\ out.summary.timedOut > 0
  /\ out.insights.qualityScore >= 70
  /\ out.comparison.hasBaseline
  /\ out.insights.releaseGate = "BLOCKED"

\* C2: qualityScore, stabilityScore, speedScore, retryHealth, retryRate,
\* effectivePassRate and every file riskScore are integers in [0,100], for
\* every list of valid records, the empty list included.
C2_ScoresInRange ==
  HasPayload =>
    /\ \A f \in {"qualityScore", "stabilityScore", "speedScore", "retryHealth",
                 "retryRate", "effectivePassRate"} : out.insights[f] \in 0..100
    /\ \A p \in DOMAIN out.fileInsights : out.fileInsights[p].riskScore \in 0..100

\* the clamp is what keeps the scores in range: p95 is above the 15 s budget
\* (100 - 267 before the clamp) in a run with a failing, retried file
C2_Witness ==
  /\ HasPayload
  /\ out.insights.p95 > SpeedBudgetMs /\ out.insights.speedScore = 0
  /\ \E p \in DOMAIN out.fileInsights : out.fileInsights[p].riskScore > 50
  /\ out.summary.failed > 0

(* Properties of calculateStatistics, checked under SpecStats *)

\* C9: the four duration buckets partition the records: fast holds those
\* with duration < 1000, medium 1000 <= d < 5000, slow 5000 <= d < 15000,
\* verySlow d >= 15000, and the four counts sum to the number of records.
C9_BucketsPartition ==
  (pc = "done" /\ stats # NoStats) =>
    LET r == stats.durationRanges
    IN /\ r.fast = CountTests(LAMBDA t : t.duration < 1000)
       /\ r.medium = CountTests(LAMBDA t : 1000 <= t.duration /\ t.duration < 5000)
       /\ r.slow = CountTests(LAMBDA t : 5000 <= t.duration /\ t.duration < 15000)
       /\ r.verySlow = CountTests(LAMBDA t : t.duration >= 15000)
       /\ r.fast + r.medium + r.slow + r.verySlow = Len(data.tests)

\* records on both sides of a threshold, one of them exactly on it
C9_Witness ==
  /\ pc = "done" /\ stats # NoStats
  /\ Len(data.tests) = 3
  /\ \E i, j, k \in DOMAIN data.tests :
       /\ data.tests[i].duration = 0
       /\ data.tests[j].duration = 1000
       /\ data.tests[k].duration = 15000
  /\ stats.durationRanges.fast = 1

\* all durations 0
C9_WitnessZero ==
  /\ pc = "done" /\ stats # NoStats
  /\ Len(data.tests) >= 2
  /\ \A i \in DOMAIN data.tests : data.tests[i].duration = 0

(* Properties of percentile, checked under SpecPct *)

\* v is the element of rank clamp(ceil(p*n/100), 1, n) of the series
IsNearestRank(v, p) ==
  LET n == Len(series)
      rank == Max(1, Min(n, CeilDiv(p * n, 100)))
  IN /\ \E i \in DOMAIN series : series[i] = v
     /\ Cardinality({i \in DOMAIN series : series[i] < v}) < rank
     /\ Cardinality({i \in DOMAIN series : series[i] <= v}) >= rank

\* C10: for a non-empty series p50 <= p90 <= p95, each is the element at
\* index clamp(ceil(p*n/100) - 1, 0, n-1) of the ascending sort, a
\* one-element series gives that element three times; the empty series gives 0.
C10_PercentileNearestRank ==
  IF Len(series) = 0 THEN pcts = <<0, 0, 0>>
  ELSE /\ pcts[1] <= pcts[2] /\ pcts[2] <= pcts[3]
       /\ IsNearestRank(pcts[1], 50)
       /\ IsNearestRank(pcts[2], 90)
       /\ IsNearestRank(pcts[3], 95)
       /\ (Len(series) = 1 => pcts = <<series[1], series[1], series[1]>>)

\* an unsorted series long enough for the three percentiles to differ
C10_Witness ==
  /\ Len(series) >= 10
  /\ pcts[1] < pcts[2] /\ pcts[2] < pcts[3]
  /\ series[1] > series[Len(series)]

----------------------------------------------------------------------------
(* Properties of the flattener, checked under SpecParse *)

Parsed == pc \in {"parsed", "reported"}

RECURSIVE FlatConcat(_)
FlatConcat(ss) == IF Len(ss) = 0 THEN <<>> ELSE Head(ss) \o FlatConcat(Tail(ss))

RECURSIVE DocTests(_, _)
\* every test node of the suites, in document order (the tests of a suite's
\* own specs, then those of its nested suites), each with the titles of the
\* suites that enclose it, outermost first, and the file of its spec
DocTests(suites, path) ==
  FlatConcat([i \in DOMAIN suites |->
    IF suites[i].kind # "obj" THEN <<>>
    ELSE LET su == suites[i]
             here == path \o <<su.title>>
         IN FlatConcat([j \in DOMAIN su.specs |->
              IF su.specs[j].kind # "obj" THEN <<>>
              ELSE [k \in DOMAIN su.specs[j].tests |->
                      [test |-> su.specs[j].tests[k], path |-> here,
                       file |-> su.specs[j].file]]])
            \o DocTests(su.suites, here)])

\* the test nodes that have an outcome: at least one attempt
ScoredTests ==
  SelectSeq(DocTests(doc.suites, <<>>),
            LAMBDA e : e.test.kind = "obj" /\ Len(e.test.results) > 0)

\* the title of the nearest enclosing suite that has one, else Undef
NearestTitle(path) ==
  IF \E i \in DOMAIN path : Truthy(path[i])
  THEN path[CHOOSE i \in DOMAIN path :
              Truthy(path[i]) /\ \A j \in (i + 1)..Len(path) : ~Truthy(path[j])]
  ELSE Undef

\* C3: a document that validatePlaywrightReport accepts is flattened by
\* parsePlaywrightReport without a throw (a null test or a null attempt is
\* rejected by the validator or tolerated by the flattener).
C3_AcceptedNeverThrows ==
  (Parsed /\ valid) => data.kind = "data"

\* C5: parsePlaywrightReport emits one record per test node with k >= 1
\* attempts, in document order, with status and duration of attempt k and
\* retries = k - 1, and none for a test node without attempts: there are as
\* many records as test nodes with an attempt, at any nesting depth.
C5_OneRecordPerScoredTest ==
  (Parsed /\ data.kind = "data") =>
    /\ Len(data.tests) = Len(ScoredTests)
    /\ \A i \in DOMAIN data.tests :
         LET results == ScoredTests[i].test.results
             k == Len(results)
         IN /\ data.tests[i].status = results[k].status
            /\ data.tests[i].duration = results[k].duration
            /\ data.tests[i].retries = k - 1

\* a retried test whose attempts differ, beside a test without attempts
C5_Witness ==
  /\ Parsed /\ data.kind = "data"
  /\ Len(data.tests) = 1
  /\ data.tests[1].retries = 1 /\ data.tests[1].status = "passed"
  /\ Len(DocTests(doc.suites, <<>>)) = 2

\* a test in a nested suite is emitted once
C5_WitnessNested ==
  /\ Parsed /\ data.kind = "data"
  /\ Len(data.tests) = 1
  /\ Len(ScoredTests[1].path) = 2

\* C6: every record carries as suite the title of the nearest enclosing
\* suite that has a title; without any, the file of its spec; without that,
\* "Unknown Suite".
C6_NearestSuiteTitle ==
  (Parsed /\ data.kind = "data") =>
    \A i \in DOMAIN data.tests :
      LET e == ScoredTests[i]
          title == NearestTitle(e.path)
      IN data.tests[i].suite =
           IF Truthy(title) THEN title
           ELSE IF Truthy(e.file) THEN e.file ELSE "Unknown Suite"

\* a record of a titled suite nested in a titled suite takes the inner title
C6_Witness ==
  /\ Parsed /\ data.kind = "data"
  /\ \E i \in DOMAIN data.tests :
       /\ ScoredTests[i].path = <<"Outer", "Inner">>
       /\ data.tests[i].suite = "Inner"

\* an untitled inner suite inherits the outer title
C6_WitnessInherit ==
  /\ Parsed /\ data.kind = "data"
  /\ \E i \in DOMAIN data.tests :
       /\ ScoredTests[i].path = <<"Outer", Undef>>
       /\ data.tests[i].suite = "Outer"

OtherStatus(tests) ==
  Cardinality({i \in DOMAIN tests : tests[i].status \notin {"passed", "failed", "skipped"}})

\* C7: passed + failed + skipped <= total and the difference is the number
\* of records with another status, in the counters parsePlaywrightReport
\* returns and in the summary of the generateVueReport payload.
C7_CountersAddUp ==
  /\ (Parsed /\ data.kind = "data") =>
       /\ data.passed + data.failed + data.skipped <= data.totalTests
       /\ data.totalTests - (data.passed + data.failed + data.skipped)
            = OtherStatus(data.tests)
  /\ (pc = "reported" /\ out.kind = "payload") =>
       /\ out.summary.passed + out.summary.failed + out.summary.skipped
            <= out.summary.total
       /\ out.summary.total
            - (out.summary.passed + out.summary.failed + out.summary.skipped)
            = OtherStatus(data.tests)

\* a payload for a run with a timedOut record beside a passed one
C7_Witness ==
  /\ pc = "reported" /\ out.kind = "payload"
  /\ out.summary.total = 2 /\ out.summary.passed = 1
  /\ OtherStatus(data.tests) = 1

(* Flaky counts, checked under SpecVue *)

FlakyIn(K(_), name) ==
  Cardinality({i \in DOMAIN data.tests :
                 IsFlaky(data.tests[i]) /\ K(data.tests[i]) = name})

\* C8: the run-level flaky counter and the flaky field of every browser,
\* suite and file group count exactly the records with retries > 0 and
\* status passed.
C8_FlakyMeansRetriedAndPassed ==
  HasPayload =>
    /\ out.summary.flaky = CountTests(IsFlaky)
    /\ \A p \in DOMAIN out.browserStats :
         out.browserStats[p].flaky = FlakyIn(browserKey, out.browserStats[p].name)
    /\ \A p \in DOMAIN out.suiteStats :
         out.suiteStats[p].flaky = FlakyIn(suiteKey, out.suiteStats[p].name)
    /\ \A p \in DOMAIN out.fileInsights :
         out.fileInsights[p].flaky = FlakyIn(fileKey, out.fileInsights[p].file)

----------------------------------------------------------------------------
(* Properties of main(), checked under Spec *)

CalledSoFar(what) == \E i \in DOMAIN calls : calls[i] = what

\* C4: a CLI run whose document fails validatePlaywrightReport ends at the
\* validation step with exit code 1: parsePlaywrightReport is not called and
\* no aggregate exists, the history file is neither read nor written, and no
\* report is written.
C4_InvalidInputStopsBeforeParse ==
  [][(pc = "validate" /\ ~validatePlaywrightReport(doc)) =>
       /\ pc' = "exited" /\ exitCode' = 1
       /\ data' = NoData /\ history' = <<>>
       /\ UNCHANGED <<historyFile, out>>
       /\ calls' = <<"readInput", "validatePlaywrightReport">>]_vars

\* a run stopped by a null suite below the root, beside a history file
C4_Witness ==
  /\ pc = "exited" /\ exitCode = 1
  /\ CalledSoFar("validatePlaywrightReport") /\ ~valid
  /\ doc.kind = "obj" /\ doc.hasSuites /\ Len(doc.suites) = 1
  /\ doc.suites[1].kind = "obj"
  /\ historyFile = ArrayFile(<<H1>>)
  /\ data = NoData /\ out = NoOut

(* The trend comparison and the release gate, checked under SpecVue *)

\* the caller's history runs from the oldest entry to the newest
OldestFirst(h) ==
  \A i \in 1..(Len(h) - 1) : h[i].generatedAt <= h[i + 1].generatedAt

EntryFlakyRate(e) == IF e.total > 0 THEN RoundDiv(100 * e.flaky, e.total) ELSE 0

\* C11: for a history supplied oldest to newest, fewer than two entries give
\* hasBaseline false and four deltas of 0; two or more give hasBaseline true
\* and each delta is the last entry's value minus the second-to-last one's,
\* durationDeltaSec rounded to whole seconds.
C11_ComparisonOfLastTwo ==
  (HasPayload /\ OldestFirst(history)) =>
    LET n == Len(history)
        c == out.comparison
    IN IF n < 2
       THEN /\ ~c.hasBaseline
            /\ c.passRateDelta = 0 /\ c.failedDelta = 0
            /\ c.flakyRateDelta = 0 /\ c.durationDeltaSec = 0
       ELSE /\ c.hasBaseline
            /\ c.passRateDelta = history[n].passRate - history[n - 1].passRate
            /\ c.failedDelta = history[n].failed - history[n - 1].failed
            /\ c.flakyRateDelta =
                 EntryFlakyRate(history[n]) - EntryFlakyRate(history[n - 1])
            /\ c.durationDeltaSec =
                 RoundDiv(history[n].durationMs - history[n - 1].durationMs, 1000)

\* the two-entry history of the example: +10 points, 2 failures fewer, 2 s faster
C11_Witness ==
  /\ HasPayload
  /\ history = <<H1, H2>>
  /\ out.comparison.hasBaseline
  /\ out.comparison.passRateDelta = 10
  /\ out.comparison.failedDelta = -2
  /\ out.comparison.flakyRateDelta = 10
  /\ out.comparison.durationDeltaSec = -2

\* a single entry: no baseline
C11_WitnessSingle ==
  /\ HasPayload
  /\ history = <<H1>>
  /\ ~out.comparison.hasBaseline

NoneFailed ==
  \A i \in DOMAIN data.tests : data.tests[i].status \notin {"failed", "timedOut"}

GateValues == {"BLOCKED", "RISKY", "READY"}

\* the last entry of the payload's window took this many ms more than the one before
WindowSlowdownMs ==
  LET w == out.history
  IN w[Len(w)].durationMs - w[Len(w) - 1].durationMs

\* C12 as stated: without failed or timedOut records the gate is RISKY
\* exactly when 100 * flaky / total >= 8 or a prior run exists and the
\* duration grew by more than 20 s, READY otherwise; the gate is always one
\* of BLOCKED, RISKY, READY.
C12_GateOnExactRates ==
  HasPayload =>
    /\ out.insights.releaseGate \in GateValues
    /\ NoneFailed =>
         LET n == Len(data.tests)
             risky == \/ n > 0 /\ 100 * CountTests(IsFlaky) >= FlakyGateRate * n
                      \/ Len(out.history) > 1
                         /\ WindowSlowdownMs > 1000 * DurationGateSec
         IN out.insights.releaseGate = IF risky THEN "RISKY" ELSE "READY"

\* C12: without failed or timedOut records the gate is RISKY exactly when
\* the flaky rate rounded to a whole percent is at least 8, or a prior run
\* exists and the duration difference rounded to whole seconds is more than
\* 20, READY otherwise; the gate is always one of BLOCKED, RISKY, READY.
C12_GateOnRoundedRates ==
  HasPayload =>
    /\ out.insights.releaseGate \in GateValues
    /\ NoneFailed =>
         LET n == Len(data.tests)
             risky == \/ n > 0 /\ RoundDiv(100 * CountTests(IsFlaky), n) >= FlakyGateRate
                      \/ Len(out.history) > 1
                         /\ RoundDiv(WindowSlowdownMs, 1000) > DurationGateSec
         IN out.insights.releaseGate = IF risky THEN "RISKY" ELSE "READY"

\* one flaky record of 13 (7.69 percent, rounded to 8) makes the run RISKY
\* although there is no baseline
C12_Witness ==
  /\ HasPayload /\ NoneFailed
  /\ Len(data.tests) = 13 /\ CountTests(IsFlaky) = 1
  /\ ~out.comparison.hasBaseline
  /\ out.insights.releaseGate = "RISKY"

\* a run without flaky records that is READY although the last run of the
\* window took 20.4 s more than the one before
C12_WitnessReady ==
  /\ HasPayload /\ NoneFailed
  /\ CountTests(IsFlaky) = 0
  /\ out.comparison.hasBaseline /\ WindowSlowdownMs = 20400
  /\ out.insights.releaseGate = "READY"

(* The degenerate run, checked under Spec *)

\* the run of main() got a ReportData without records out of a valid document
EmptyRun == valid /\ data.kind = "data" /\ Len(data.tests) = 0

\* C13: a valid document that flattens to zero records is not an error:
\* the statistics of the empty run have minimum, maximum and average duration
\* 0, the CLI run ends with exit code 0 and generateVueReport builds a payload
\* with total 0, every rate 0, average duration 0 and p50, p90, p95 of 0.
C13_EmptyRunIsReported ==
  /\ EmptyRun =>
       LET st == calculateStatistics(data)
       IN /\ st.minDuration = 0 /\ st.maxDuration = 0 /\ st.averageDuration = 0
          /\ st.passRate = 0 /\ st.failRate = 0 /\ st.skipRate = 0
  /\ (EmptyRun /\ pc = "exited") =>
       /\ exitCode = 0
       /\ CalledSoFar("generateVueReport")
       /\ out.kind = "payload"
       /\ out.summary.total = 0
       /\ \A f \in {"passRate", "failRate", "skipRate", "flakyRate", "avgDurationMs"} :
            out.summary[f] = 0
       /\ \A f \in {"retryRate", "effectivePassRate", "p50", "p90", "p95"} :
            out.insights[f] = 0

\* an input whose only test has no attempts, reported beside a prior history
C13_Witness ==
  /\ EmptyRun /\ pc = "exited" /\ exitCode = 0
  /\ Len(doc.suites) = 1
  /\ out.kind = "payload" /\ out.summary.total = 0
  /\ Len(out.history) > 1

(* Malformed history entries, checked under SpecVue *)

WellFormed(h) == SelectSeq(h, LAMBDA e : e.kind = "obj")

\* C14: a history entry that is not a well-formed object is dropped from the
\* trend window and never aborts the construction of the payload, also when
\* the history is passed directly to generateVueReport as options.history.
C14_MalformedEntriesDropped ==
  pc = "done" =>
    /\ out.kind = "payload"
    /\ Len(out.history) = Min(Len(WellFormed(history)), HistoryWindow)

(* The caller's history array, checked under SpecVue *)

\* C15: generateVueReport leaves options.history as the caller supplied it:
\* same length, same entries in the same order, no field added or changed;
\* the sort, the cut and the added fields are on the payload's copy.
C15_HistoryReadOnly ==
  [][(pc = "input" /\ pc' = "done") => history' = history]_vars

\* a history supplied newest first: sorted and extended in the payload,
\* as supplied in the caller's array
C15_Witness ==
  /\ HasPayload
  /\ history = <<H3, H1>>
  /\ out.history[1].generatedAt = H1.generatedAt
  /\ out.history[2].flakyRate = 0
  /\ "flakyRate" \notin DOMAIN history[2]

(* The structural validator, checked under SpecParse *)

RECURSIVE WellShaped(_)
\* every suite is an object that is empty, or holds specs with a tests array,
\* or holds nested suites, themselves well shaped; no spec is malformed
WellShaped(suites) ==
  \A i \in DOMAIN suites :
    LET su == suites[i]
    IN /\ su.kind = "obj"
       /\ \/ Len(su.specs) = 0 /\ Len(su.suites) = 0
          \/ \E j \in DOMAIN su.specs : su.specs[j].kind = "obj" /\ su.specs[j].hasTests
          \/ Len(su.suites) > 0
       /\ \A j \in DOMAIN su.specs : su.specs[j].kind = "obj" /\ su.specs[j].hasTests
       /\ WellShaped(su.suites)

\* C16: validatePlaywrightReport returns true only when the root is an
\* object with a suites array and every suite at every depth is an object
\* that is empty, or holds specs with a tests array, or holds valid nested
\* suites; a malformed node, such as a spec without a tests array, makes it
\* return false.
C16_ValidOnlyIfWellShaped ==
  (pc # "edit" /\ valid) =>
    /\ doc.kind = "obj" /\ doc.hasSuites
    /\ WellShaped(doc.suites)

(* The entry points that read the report file *)

\* validatePlaywrightReport was called, and before parsePlaywrightReport
ValidatedFirst ==
  \A i \in DOMAIN calls :
    calls[i] = "parsePlaywrightReport" =>
      \E j \in 1..(i - 1) : calls[j] = "validatePlaywrightReport"

\* C17: createReport, like main(), runs validatePlaywrightReport before
\* parsePlaywrightReport, so a document with an invalid shape is reported as
\* an invalid report structure and never reaches the flattener.
C17_CreateReportValidatesFirst ==
  pc = "created" =>
    /\ ValidatedFirst
    /\ CalledSoFar("parsePlaywrightReport") => validatePlaywrightReport(doc)

(* The file ranking, checked under SpecFiles *)

\* the file a record is grouped under
FileLabel(t) == IF t.file = Undef THEN "unknown-file" ELSE t.file

FileLabels == {FileLabel(data.tests[i]) : i \in DOMAIN data.tests}

\* the risk score of a file of the run
RiskOf(label) ==
  fileInsight(fileEntry(data.tests, [i \in DOMAIN data.tests |-> FileLabel(data.tests[i])],
                        label), out.insights.p95).riskScore

\* C18: fileInsights holds at most 10 files, one entry per file, in
\* non-increasing riskScore order; no file left out has a riskScore above
\* the smallest one retained; records without a file are grouped under
\* unknown-file.
C18_TopTenFilesByRisk ==
  HasPayload =>
    LET fi == out.fileInsights
        kept == {fi[p].file : p \in DOMAIN fi}
    IN /\ Len(fi) = Min(FileInsightsSize, Cardinality(FileLabels))
       /\ kept \subseteq FileLabels /\ Cardinality(kept) = Len(fi)
       /\ \A p \in DOMAIN fi :
            /\ fi[p].riskScore = RiskOf(fi[p].file)
            /\ fi[p].total = CountTests(LAMBDA t : FileLabel(t) = fi[p].file)
       /\ \A p, q \in DOMAIN fi : p < q => fi[p].riskScore >= fi[q].riskScore
       /\ \A f \in FileLabels \ kept : \A p \in DOMAIN fi : RiskOf(f) <= fi[p].riskScore

\* eleven files with two different risk scores: the one left out is a
\* low-risk file that is not the last in encounter order, and the record
\* without a file is kept as unknown-file
C18_Witness ==
  /\ HasPayload
  /\ Cardinality(FileLabels) = 11 /\ Len(out.fileInsights) = 10
  /\ "unknown-file" \in {out.fileInsights[p].file : p \in DOMAIN out.fileInsights}
  /\ out.fileInsights[1].riskScore > out.fileInsights[10].riskScore
  /\ \E p \in DOMAIN out.fileInsights : out.fileInsights[p].file = "f11.spec.ts"

(* The browser and suite rollups, checked under SpecVue *)

\* C19: for any ReportData, the browser and suite rollups of the payload
\* come from the records alone: a group's total is the number of records
\* with its browser label (default unknown) or suite label (default file,
\* else Unknown Suite), no group has total 0, and the browser totals sum to
\* summary.total.
C19_RollupsFromRecords ==
  HasPayload =>
    /\ \A p \in DOMAIN out.browserStats :
         /\ out.browserStats[p].total > 0
         /\ out.browserStats[p].total =
              CountTests(LAMBDA t : browserKey(t) = out.browserStats[p].name)
    /\ SumSeq([p \in DOMAIN out.browserStats |-> out.browserStats[p].total])
         = out.summary.total
    /\ \A p \in DOMAIN out.suiteStats :
         /\ out.suiteStats[p].total > 0
         /\ out.suiteStats[p].total =
              CountTests(LAMBDA t : suiteKey(t) = out.suiteStats[p].name)

(* The name sets of the flattener, checked under SpecParse *)

RECURSIVE TitlesIn(_)
\* the titles of the suites of the tree, at any depth
TitlesIn(suites) ==
  UNION {IF suites[i].kind # "obj" THEN {}
         ELSE (IF Truthy(suites[i].title) THEN {suites[i].title} ELSE {})
              \cup TitlesIn(suites[i].suites) : i \in DOMAIN suites}

\* C20: the suites set parsePlaywrightReport returns holds the name of every
\* suite met during the walk, at any depth: every suite title or file given
\* to a record as its suite label is in the set, and every defined browser
\* label of a record is in the browsers set.
C20_NameSetsCoverRecords ==
  (Parsed /\ data.kind = "data") =>
    /\ TitlesIn(doc.suites) \subseteq data.suites
    /\ \A i \in DOMAIN data.tests :
         /\ data.tests[i].suite # "Unknown Suite" => data.tests[i].suite \in data.suites
         /\ Truthy(data.tests[i].browser) => data.tests[i].browser \in data.browsers

(* The retries histogram, checked under SpecMix *)

HasStats == pc = "done" /\ stats # NoStats

\* C21: for a non-empty record list the retries histogram of
\* calculateStatistics maps each retry count that occurs, 0 included, to the
\* number of records with that count, and its values sum to the number of
\* records.
C21_RetriesHistogram ==
  (HasStats /\ Len(data.tests) > 0) =>
    LET h == stats.retriesDistribution
        ks == SeqOfSet(DOMAIN h)
    IN /\ DOMAIN h = {data.tests[i].retries : i \in DOMAIN data.tests}
       /\ \A k \in DOMAIN h : h[k] = CountTests(LAMBDA t : t.retries = k)
       /\ SumSeq([p \in DOMAIN ks |-> h[ks[p]]]) = Len(data.tests)

\* retries 0, 0, 0, 1, 1, 2 in some order give {0: 3, 1: 2, 2: 1}
C21_Witness ==
  /\ HasStats
  /\ Len(data.tests) = 6
  /\ DOMAIN stats.retriesDistribution = {0, 1, 2}
  /\ stats.retriesDistribution[0] = 3
  /\ stats.retriesDistribution[1] = 2
  /\ stats.retriesDistribution[2] = 1

(* The ranking lists, checked under SpecMix *)

\* the first 10 of a list in stable descending order of duration
RankedByDuration(list) ==
  Take(Permute(list, StableDesc([i \in DOMAIN list |-> list[i].duration])), RankingSize)

\* C22: slowestTests, flakyTests and failedTests of calculateStatistics are
\* each ordered by duration descending, ties in encounter order, and hold at
\* most 10 records.
C22_RankingsSortedAndCapped ==
  (HasStats /\ Len(data.tests) > 0) =>
    /\ stats.slowestTests = RankedByDuration(data.tests)
    /\ stats.flakyTests = RankedByDuration(SelectSeq(data.tests, IsFlaky))
    /\ stats.failedTests =
         RankedByDuration(SelectSeq(data.tests, LAMBDA t : t.status = "failed"))

(* generateAdvancedReport and the order of data.tests, checked under SpecAdv *)

\* generateTestTimeline sorts data.tests itself, slowest first, and maps the
\* sorted array; the value is data.tests as the call leaves it
generateTestTimeline(tests) ==
  Permute(tests, StableDesc([i \in DOMAIN tests |-> tests[i].duration]))

\* generateAdvancedReport(data, options): refuses an empty record list,
\* computes the statistics, then builds the timeline
CallGenerateAdvancedReport ==
  /\ pc = "input"
  /\ pc' = "done"
  /\ IF Len(data.tests) = 0
       THEN UNCHANGED <<data, stats>>
       ELSE /\ stats' = calculateStatistics(data)
            /\ data' = [data EXCEPT !.tests = generateTestTimeline(data.tests)]
  /\ UNCHANGED <<docVars, history, out, series, pcts, cliVars>>

NextAdv ==
  \/ AddTest(DurationPool)
  \/ CallCalculateStatistics
  \/ CallGenerateVueReport
  \/ CallGenerateAdvancedReport
SpecAdv == InitVue /\ [][NextAdv]_vars

\* C23: no consumer of the flattened records changes data.tests: after
\* calculateStatistics, generateVueReport or generateAdvancedReport the
\* sequence is element for element what it was before the call.
C23_RecordsUntouched ==
  [][pc' = "done" => data'.tests = data.tests]_vars

(* The scores, checked under SpecScore *)

\* the four kinds of record of a scored run: clean, retried, failed, timed out
ScoreKinds ==
  <<TestRecord("passed", 0, 100, "a.spec.ts", "chromium", "Login"),
    TestRecord("passed", 1, 2175, "a.spec.ts", "chromium", "Login"),
    TestRecord("failed", 0, 1200, "b.spec.ts", "firefox", "Cart"),
    TestRecord("timedOut", 0, 5000, "b.spec.ts", "firefox", "Cart")>>

\* a caller with a run of up to MaxScored records, listed kind by kind
AddScored ==
  /\ pc = "input"
  /\ Len(data.tests) < MaxScored
  /\ \E k \in DOMAIN ScoreKinds :
       /\ \A i \in DOMAIN data.tests : \E j \in 1..k : data.tests[i] = ScoreKinds[j]
       /\ data' = callerData(Append(data.tests, ScoreKinds[k]))
  /\ UNCHANGED <<pc, docVars, history, out, stats, series, pcts, cliVars>>

NextScore == AddScored \/ CallGenerateVueReport
SpecScore == InitVue /\ [][NextScore]_vars

\* q is num/den, den > 0, rounded to the nearest integer (either neighbour
\* when num/den lies halfway between two) and clamped to [0, 100]
NearestClamped(q, num, den) ==
  \/ q = 0 /\ 2 * num <= den
  \/ q = 100 /\ 2 * num >= 199 * den
  \/ q \in 0..100 /\ 2 * q * den - den <= 2 * num /\ 2 * num <= 2 * q * den + den

\* C24: for every non-empty record list, stabilityScore is
\* 100 - (0.55 retryRate + 0.75 failRate + 40 timedOut/total) rounded to the
\* nearest integer and clamped to [0, 100], speedScore is 100 - 100 p95/15000
\* rounded and clamped (0 from p95 = 15000 on), retryHealth is 100 - retryRate,
\* and qualityScore is 0.4 passRate + 0.3 stabilityScore + 0.2 speedScore
\* + 0.1 retryHealth rounded to the nearest integer and clamped to [0, 100].
C24_QualityScoreFormula ==
  (HasPayload /\ Len(data.tests) > 0) =>
    LET n == Len(data.tests)
        ins == out.insights
        passRate == out.summary.passRate
        failRate == out.summary.failRate
        timedOut == CountTests(LAMBDA t : t.status = "timedOut")
    IN /\ NearestClamped(ins.stabilityScore,
                         10000 * n - (55 * ins.retryRate * n + 75 * failRate * n
                                        + 4000 * timedOut), 100 * n)
       /\ NearestClamped(ins.speedScore, 100 * (SpeedBudgetMs - ins.p95), SpeedBudgetMs)
       /\ ins.p95 >= SpeedBudgetMs => ins.speedScore = 0
       /\ ins.retryHealth = 100 - ins.retryRate
       /\ NearestClamped(ins.qualityScore,
                         4 * passRate + 3 * ins.stabilityScore + 2 * ins.speedScore
                           + ins.retryHealth, 10)

\* 1 clean and 9 retried records: passRate 100, retryRate 90, p95 2175;
\* stability 50.5 comes out as 50, speed 85.5 as 86, quality 73.2 as 73
C24_Witness ==
  /\ HasPayload
  /\ Len(data.tests) = 10
  /\ out.summary.passRate = 100
  /\ out.insights.retryRate = 90
  /\ out.insights.stabilityScore = 50
  /\ out.insights.speedScore = 86
  /\ out.insights.retryHealth = 10
  /\ out.insights.qualityScore = 73

(* The rates, checked under SpecMix *)

\* q is num/den, den > 0, rounded to the nearest integer, a half going up
RoundedUp(q, num, den) == 2 * q * den <= 2 * num + den /\ 2 * num + den < 2 * (q + 1) * den

\* C25: for every record list with total > 0, passRate, failRate and skipRate,
\* in the statistics and in the payload summary alike, are 100 passed/total,
\* 100 failed/total and 100 skipped/total rounded to the nearest integer, the
\* counters being the numbers of records of that status.
C25_RatesFromCounters ==
  (pc = "done" /\ Len(data.tests) > 0) =>
    LET n == Len(data.tests)
        passed == CountTests(LAMBDA t : t.status = "passed")
        failed == CountTests(LAMBDA t : t.status = "failed")
        skipped == CountTests(LAMBDA t : t.status = "skipped")
    IN /\ stats # NoStats =>
            /\ RoundedUp(stats.passRate, 100 * passed, n)
            /\ RoundedUp(stats.failRate, 100 * failed, n)
            /\ RoundedUp(stats.skipRate, 100 * skipped, n)
       /\ out.kind = "payload" =>
            /\ out.summary.total = n
            /\ out.summary.passed = passed
            /\ out.summary.failed = failed
            /\ out.summary.skipped = skipped
            /\ out.summary.flaky = CountTests(IsFlaky)
            /\ RoundedUp(out.summary.passRate, 100 * passed, n)
            /\ RoundedUp(out.summary.failRate, 100 * failed, n)
            /\ RoundedUp(out.summary.skipRate, 100 * skipped, n)

\* 3 passed (one of them retried once), 1 failed, 1 skipped:
\* total 5, passed 3, failed 1, skipped 1, flaky 1, rates 60, 20, 20
C25_Witness ==
  /\ HasPayload
  /\ Len(data.tests) = 5
  /\ CountTests(LAMBDA t : t.status = "passed") = 3
  /\ CountTests(LAMBDA t : t.retries = 1) = 1
  /\ CountTests(LAMBDA t : t.retries = 0) = 4
  /\ CountTests(LAMBDA t : t.status = "failed") = 1
  /\ CountTests(LAMBDA t : t.status = "skipped") = 1
  /\ out.summary.total = 5
  /\ out.summary.passed = 3
  /\ out.summary.failed = 1
  /\ out.summary.skipped = 1
  /\ out.summary.flaky = 1
  /\ out.summary.passRate = 60
  /\ out.summary.failRate = 20
  /\ out.summary.skipRate = 20

(* The history file across runs, checked under Spec *)

\* max(1, the history-limit option, or 30 when it is not a non-zero number)
LimitOfRun ==
  LET a == argv.historyLimit
      wanted == IF a.nan \/ a.n = 0 THEN 30 ELSE a.n
  IN IF wanted < 1 THEN 1 ELSE wanted

\* the well-formed entries of the history file, in file order
PersistedEntries ==
  IF historyFile.kind = "array"
  THEN SelectSeq(historyFile.entries, LAMBDA e : e.kind = "obj")
  ELSE <<>>

\* C26: the history file a run writes holds at most historyLimit entries, its
\* last entry is the summary of that run, and its entries are the most recent
\* ones of the prior entries followed by the run, in their original order;
\* the file then stays as written until the run ends.
C26_HistoryAppendedAndCapped ==
  [][/\ pc = "append" =>
          LET all == Append(PersistedEntries, historyEntry(data, clock))
              now == historyFile'.entries
              dropped == Len(all) - Len(now)
          IN /\ historyFile'.kind = "array"
             /\ Len(now) = Min(LimitOfRun, Len(all))
             /\ now[Len(now)] = historyEntry(data, clock)
             /\ \A k \in DOMAIN now : now[k] = all[dropped + k]
     /\ pc = "generate" => historyFile' = historyFile]_vars

\* a run on the file of 30 entries under the default limit: 30 entries stay,
\* the run is the last one and the oldest entry is gone
C26_Witness ==
  /\ pc = "exited"
  /\ exitCode = 0
  /\ LimitOfRun = DefaultHistoryLimit
  /\ historyFile.kind = "array"
  /\ Len(historyFile.entries) = DefaultHistoryLimit
  /\ historyFile.entries[DefaultHistoryLimit] = historyEntry(data, clock)
  /\ historyFile.entries[1].generatedAt = 2 - DefaultHistoryLimit

(* The run compared with the one before it, checked under Spec *)

\* C27: in every run that writes a report, the current run's summary is the
\* last entry of the history handed to generateVueReport, and the comparison
\* block, when hasBaseline is true, is the current run minus the entry
\* persisted immediately before it, whatever generatedAt the persisted
\* entries carry.
C27_ComparedWithPreviousRun ==
  (pc = "exited" /\ exitCode = 0 /\ out.comparison.hasBaseline) =>
    LET n == Len(history)
        c == out.comparison
    IN /\ n >= 2
       /\ history[n] = historyEntry(data, clock)
       /\ c.passRateDelta = history[n].passRate - history[n - 1].passRate
       /\ c.failedDelta = history[n].failed - history[n - 1].failed
       /\ c.flakyRateDelta =
            EntryFlakyRate(history[n]) - EntryFlakyRate(history[n - 1])
       /\ c.durationDeltaSec =
            RoundDiv(history[n].durationMs - history[n - 1].durationMs, 1000)

(* A history file that cannot be read, checked under Spec *)

Unreadable(file) == file.kind \in {"corrupt", "notArray"}

\* C28: when the history file exists but is not JSON or does not hold an
\* array, the run goes on with an empty prior history and overwrites the file
\* with the current run alone; a run whose history is the current run alone
\* ends with exit code 0 and a payload whose hasBaseline is false.
C28_UnreadableHistoryStartsAfresh ==
  [][/\ (pc = "history" /\ Unreadable(historyFile)) =>
          /\ history' = <<>>
          /\ pc' = "append"
          /\ exitCode' = 0
     /\ (pc = "append" /\ Unreadable(historyFile)) =>
          /\ historyFile' = ArrayFile(<<historyEntry(data, clock)>>)
          /\ history' = <<historyEntry(data, clock)>>
          /\ pc' = "generate"
     /\ (pc = "generate" /\ history = <<historyEntry(data, clock)>>) =>
          /\ pc' = "exited"
          /\ exitCode' = 0
          /\ out'.kind = "payload"
          /\ ~out'.comparison.hasBaseline]_vars

\* the run has read a file that is not JSON and goes on with no prior entry
C28_Witness ==
  /\ pc = "append"
  /\ historyFile.kind = "corrupt"
  /\ calls[Len(calls)] = "readHistoryFile"
  /\ history = <<>>
  /\ exitCode = 0

(* The performance tiers, checked under SpecMix *)

\* C29: the four tier counts of the payload (Ultra Fast, Fast, Normal, Slow)
\* partition the records: each record is counted in one tier only and the
\* four counts add up to the number of records.
C29_TiersPartition ==
  HasPayload =>
    /\ \A k \in 1..4 : out.tiers[k] \in 0..Len(data.tests)
    /\ out.tiers[1] + out.tiers[2] + out.tiers[3] + out.tiers[4] = Len(data.tests)

(* The failure indicators of the payload, checked under SpecVue *)

\* C30: in every payload, hasFailures is true exactly when releaseGate is
\* BLOCKED, and summary.nonPassing is above 0 exactly when releaseGate is
\* BLOCKED.
C30_FailureIndicatorsAgree ==
  HasPayload =>
    /\ out.hasFailures <=> out.insights.releaseGate = "BLOCKED"
    /\ out.summary.nonPassing > 0 <=> out.insights.releaseGate = "BLOCKED"

====
